---- MODULE Spec2Model ----
(***************************************************************************)
(* View-state controller of the dashboard pages (frontend/pages/index.tsx, *)
(* dashboard.tsx, index_complex.tsx): open tabs, active tab, sidebar       *)
(* sections, per-kind result slots, loading flags and the requests in      *)
(* flight.  A request in flight carries the closure of the render in which *)
(* its handler was invoked: the continuation after `await` reads the       *)
(* openTabs of that render, not the current one.                           *)
(***************************************************************************)
EXTENDS Integers, Sequences, FiniteSets, TLC

VARIABLES
    page,             \* which page component is mounted: "index" | "dashboard" | "unmounted"
    openTabs,         \* useState<string[]>([])
    activeTab,        \* useState<string>('')
    expanded,         \* index.tsx: Record<string, boolean>
    expandedSections, \* dashboard.tsx / index_complex.tsx: string[]
    results,          \* the result slots: fftStats, classical, quantum, rfResult, quantumState, simData
    loading,          \* useState<string>('')
    loadingSim,       \* useState(false)
    autoRefresh,      \* useState(false)
    intervals,        \* index.tsx: the setInterval timers that are set and not cleared
    interval,         \* index.tsx: `interval` of the latest run of the auto-refresh effect, 0 = undefined
    inflight,         \* requests awaiting their response
    issued,           \* per kind: number of requests sent so far
    newestOk,         \* history: per kind, the latest-issued request that has settled successfully
    recency,          \* history of direct openTab calls: open tabs in the order of their latest call
    lastCall,         \* history: the latest direct call of openTab or closeTab
    health,           \* useState<string>('checking...')
    healthFetch,      \* the GET /health of the mount effect: "unsent" | "pending" | "done"
    isOpen,           \* FinanceBot: useState(false)
    messages,         \* FinanceBot: useState<Message[]>([greeting])
    input,            \* FinanceBot: useState('')
    isLoading,        \* FinanceBot: useState(false)
    chatTimers,       \* FinanceBot: pending setTimeout(() => handleSend(), 100), oldest first
    chatInflight,     \* FinanceBot: POST /chat requests awaiting their reply
    chatPosts,        \* FinanceBot: number of POST /chat sent so far
    viewer,           \* the 3D viewer rendered: "PortfolioGalaxy" | "BlochViewer", "" before any is
    viewerMounted,    \* the viewer is mounted
    isClient,         \* viewer: useState(false)
    viewerError,      \* viewer: useState<string | null>(null), as a boolean
    canvas,           \* viewer: canvasRef.current is not null
    viewerInput,      \* viewer: the assets / qubits prop: 0 = empty array, n = the n-th non-empty one
    effects           \* viewer: the runs of the scene effect, oldest first

callHist == <<recency, lastCall>>

refreshVars == <<intervals, interval>>

viewerVars == <<viewer, viewerMounted, isClient, viewerError, canvas, viewerInput, effects>>

healthVars == <<health, healthFetch>>

chatVars == <<isOpen, messages, input, isLoading, chatTimers, chatInflight, chatPosts>>

\* the state of the page component
pageVars == <<page, openTabs, activeTab, expanded, expandedSections, results, loading,
              loadingSim, autoRefresh, intervals, interval, inflight, issued, newestOk,
              recency, lastCall>>

vars == <<page, openTabs, activeTab, expanded, expandedSections, results,
          loading, loadingSim, autoRefresh, intervals, interval, inflight, issued, newestOk,
          recency, lastCall,
          health, healthFetch,
          isOpen, messages, input, isLoading, chatTimers, chatInflight, chatPosts,
          viewer, viewerMounted, isClient, viewerError, canvas, viewerInput, effects>>

----------------------------------------------------------------------------
(* Bounds of the model *)

\* requests sent in all
MaxRequests == 3
\* requests in flight at the same time
MaxInFlight == 2
\* requests sent in all while sidebar sections are toggled
MaxSidebarRequests == 2
\* requests sent in all in the behaviours in which every request settles
MaxSettlingRequests == 2
\* tab identifiers used by the sequences of direct openTab/closeTab calls
NumTabs == 3
\* POST /chat requests sent in all
MaxChatPosts == 2
\* quick-question timers pending at the same time
MaxChatTimers == 2
\* runs of the scene effect of a 3D viewer
MaxEffects == 3
\* animation frames requested by one run of the scene effect
MaxFrames == 2
\* distinct non-empty assets / qubits arrays passed to a 3D viewer
MaxInputs == 2

----------------------------------------------------------------------------
(* Sequence helpers: Array.prototype.includes / filter / spread *)

Elems(s) == {s[i] : i \in 1..Len(s)}

includes(s, x) == x \in Elems(s)

filterOut(s, x) == SelectSeq(s, LAMBDA t : t # x)

Last(s) == s[Len(s)]

----------------------------------------------------------------------------
(* Static tables of the pages *)

Pages == {"index", "dashboard"}

\* the analysis kinds of each page, named by the value given to setLoading
KindsOf(p) ==
    IF p = "index"
    THEN {"fft", "classical", "quantum", "stock", "quantumState", "sim"}
    ELSE {"fft", "classical", "quantum"}

AllKinds == KindsOf("index")

\* the tab opened for a kind ("" : the kind has no tab)
TabOf(k) ==
    CASE k = "fft" -> "signals"
      [] k = "sim" -> ""
      [] OTHER -> k

AllTabs == <<"signals", "classical", "quantum", "comparison", "stock", "galaxy", "quantumState">>

\* the sidebar section that renders the control of a kind
SectionOf(k) ==
    CASE k = "fft" -> "signals"
      [] k \in {"classical", "quantum"} -> "strategies"
      [] k = "quantumState" -> "visualizations"
      [] k = "stock" -> "ml"
      [] OTHER -> ""

IndexSections == {"signals", "strategies", "ml", "visualizations"}
DashSections == {"signals", "strategies"}

----------------------------------------------------------------------------
(* Values of a result slot *)

Null == [tag |-> "null", gen |-> 0]
\* the JSON body of the successful response to the gen-th request of a kind
Payload(g) == [tag |-> "data", gen |-> g]
\* a JSON body that reports an error (an error field, or the body of a non-OK response)
ErrBody == [tag |-> "errBody", gen |-> 0]
\* { error: message } written by the catch blocks of dashboard.tsx
ErrMarker == [tag |-> "errMarker", gen |-> 0]

Truthy(v) == v.tag # "null"

\* how a request can settle
Outcomes == {"ok", "appError", "httpError", "reject"}

Body(o, g) == IF o = "ok" THEN Payload(g) ELSE ErrBody

----------------------------------------------------------------------------
(* Tab operations *)

\* variant of openTab that appends id whether or not it is already open
openTabAlwaysAppends(closureTabs, currentTabs, id) ==
    [tabs |-> Append(closureTabs, id), active |-> id]

\* openTab: [new openTabs, new activeTab], given the openTabs of the closure
openTab(closureTabs, currentTabs, id) ==
    [tabs   |-> IF ~includes(closureTabs, id) THEN Append(closureTabs, id) ELSE currentTabs,
     active |-> id]

\* variant of closeTab that leaves the active tab as it is
closeTabKeepsActive(tabs, active, id) ==
    [tabs |-> filterOut(tabs, id), active |-> active]

\* variant of closeTab that appends the remaining tabs in reverse order
closeTabReorders(tabs, active, id) ==
    LET next == filterOut(tabs, id) IN
    [tabs   |-> [i \in 1..Len(next) |-> next[Len(next) + 1 - i]],
     active |-> IF active = id
                THEN (IF Len(next) > 0 THEN next[1] ELSE "")
                ELSE active]

\* variant of closeTab that falls back to the first remaining tab
closeTabFallsBackToFirst(tabs, active, id) ==
    LET next == filterOut(tabs, id) IN
    [tabs   |-> next,
     active |-> IF active = id
                THEN (IF Len(next) > 0 THEN next[1] ELSE "")
                ELSE active]

\* variant of closeTab that falls back to the tab before the last remaining one
closeTabFallsBackToPenultimate(tabs, active, id) ==
    LET next == filterOut(tabs, id) IN
    [tabs   |-> next,
     active |-> IF active = id
                THEN (IF Len(next) > 1 THEN next[Len(next) - 1]
                      ELSE IF Len(next) = 1 THEN next[1] ELSE "")
                ELSE active]

\* closeTab of index.tsx
closeTab(tabs, active, id) ==
    LET next == filterOut(tabs, id) IN
    [tabs   |-> next,
     active |-> IF active = id
                THEN (IF Len(next) > 0 /\ Last(next) # "" THEN Last(next) ELSE "")
                ELSE active]

\* closeTab of dashboard.tsx and index_complex.tsx
closeTabDash(tabs, active, id) ==
    LET newTabs == filterOut(tabs, id) IN
    [tabs   |-> newTabs,
     active |-> IF active = id
                THEN (IF Len(newTabs) > 0 THEN Last(newTabs) ELSE "")
                ELSE active]

closeTabOf(p, tabs, active, id) ==
    IF p = "index" THEN closeTab(tabs, active, id) ELSE closeTabDash(tabs, active, id)

\* history of openTab calls: id becomes the most recently opened tab
Touch(rec, id) == Append(filterOut(rec, id), id)

----------------------------------------------------------------------------
(* Values of the chat widget *)

\* a Message: role, content, timestamp (new Date(), one value here)
Message(role, content) == [role |-> role, content |-> content, timestamp |-> "now"]

Greeting == Message("assistant", "greeting")

\* what the user can type in the input field
TypedInputs == {"", " ", " hi "}

\* the quick questions rendered: quickQuestions.slice(0, 3)
QuickQuestions == {"q1", "q2"}

\* String.prototype.trim on the strings above
Trim(str) ==
    CASE str = " hi " -> "hi"
      [] str = " " -> ""
      [] OTHER -> str

\* the response field of the reply to the n-th POST /chat
ReplyTexts == <<"reply1", "reply2", "reply3", "reply4">>

\* how a POST /chat can settle: a response field, an error field without response,
\* neither of them, or a rejected fetch / unparsable body
ChatOutcomes == {"ok", "error", "empty", "reject"}

\* messages.map(m => ({ role: m.role, content: m.content }))
HistoryOf(msgs) == [i \in 1..Len(msgs) |-> [role |-> msgs[i].role, content |-> msgs[i].content]]

----------------------------------------------------------------------------
(* The 3D viewers: values *)

Viewers == {"PortfolioGalaxy", "BlochViewer"}

\* a run of the scene effect: "returned" (the early return, no cleanup function),
\* "importing" (await import("three") pending), "animating" (a frame is
\* requested), "stopped" (the requested frame was cancelled), "failed" (catch);
\* animationId is 0 while undefined; cleaned: the cleanup function has run
EffectRun(ph) == [phase |-> ph, animationId |-> 0, cleaned |-> FALSE]

----------------------------------------------------------------------------
(* Initial state: the useState initial values *)

NoCall == [op |-> "", id |-> "", wasOpen |-> FALSE, wasActive |-> FALSE]

Init ==
    /\ page \in Pages
    /\ openTabs = <<>>
    /\ activeTab = ""
    /\ expanded = [s \in IndexSections |-> TRUE]
    /\ expandedSections = <<"signals", "strategies">>
    /\ results = [k \in AllKinds |-> Null]
    /\ loading = ""
    /\ loadingSim = FALSE
    /\ autoRefresh = FALSE
    /\ intervals = {}
    /\ interval = 0
    /\ inflight = {}
    /\ issued = [k \in AllKinds |-> 0]
    /\ newestOk = [k \in AllKinds |-> 0]
    /\ recency = <<>>
    /\ lastCall = NoCall
    /\ health = "checking..."
    /\ healthFetch = "unsent"
    /\ isOpen = FALSE
    /\ messages = <<Greeting>>
    /\ input = ""
    /\ isLoading = FALSE
    /\ chatTimers = <<>>
    /\ chatInflight = {}
    /\ chatPosts = 0
    /\ viewer = ""
    /\ viewerMounted = FALSE
    /\ isClient = FALSE
    /\ viewerError = FALSE
    /\ canvas = FALSE
    /\ viewerInput = 0
    /\ effects = <<>>

----------------------------------------------------------------------------
(* What the page renders *)

SectionOpen(s) ==
    IF page = "index" THEN expanded[s] ELSE includes(expandedSections, s)

\* the busy indicator of a kind: loading === kind, or loadingSim
LoadingShown(k) == IF k = "sim" THEN loadingSim ELSE loading = k

\* the triggering control of a kind is rendered and not disabled
ControlEnabled(k) ==
    IF k = "sim"
    THEN page = "index" /\ activeTab = "" /\ ~loadingSim
    ELSE SectionOpen(SectionOf(k)) /\ loading # k

----------------------------------------------------------------------------
(* Tab bar and sidebar *)

\* click on a tab of the tab bar: setActiveTab(id)
ClickTab(id) ==
    /\ includes(openTabs, id)
    /\ activeTab' = id
    /\ UNCHANGED <<page, refreshVars, healthVars, chatVars, viewerVars, openTabs, expanded, expandedSections, results, loading,
                   loadingSim, autoRefresh, inflight, issued, newestOk, callHist>>

\* variant of the close mark that also clears the slot shown by the tab
CloseTabClearsSlot(id) ==
    /\ includes(openTabs, id)
    /\ LET c == closeTabOf(page, openTabs, activeTab, id) IN
         /\ openTabs' = c.tabs
         /\ activeTab' = c.active
    /\ results' = [k \in DOMAIN results |-> IF TabOf(k) = id THEN Null ELSE results[k]]
    /\ UNCHANGED <<page, refreshVars, healthVars, chatVars, viewerVars, expanded, expandedSections, loading,
                   loadingSim, autoRefresh, inflight, issued, newestOk, callHist>>

\* click on the close mark of a tab of the tab bar: closeTab(id)
CloseTab(id) ==
    /\ includes(openTabs, id)
    /\ LET c == closeTabOf(page, openTabs, activeTab, id) IN
         /\ openTabs' = c.tabs
         /\ activeTab' = c.active
    /\ UNCHANGED <<page, refreshVars, healthVars, chatVars, viewerVars, expanded, expandedSections, results, loading,
                   loadingSim, autoRefresh, inflight, issued, newestOk, callHist>>

\* variant of toggle that flips every section
toggleAll(prev, id) == [s \in DOMAIN prev |-> ~prev[s]]

\* toggle of index.tsx
toggle(prev, id) == [prev EXCEPT ![id] = ~prev[id]]

\* variant of toggleSection that only collapses
toggleSectionCollapses(prev, sectionId) == filterOut(prev, sectionId)

\* toggleSection of dashboard.tsx and index_complex.tsx
toggleSection(prev, sectionId) ==
    IF includes(prev, sectionId) THEN filterOut(prev, sectionId) ELSE Append(prev, sectionId)

\* click on a section header
Toggle(id) ==
    /\ IF page = "index"
       THEN /\ id \in IndexSections
            /\ expanded' = toggle(expanded, id)
            /\ UNCHANGED expandedSections
       ELSE /\ id \in DashSections
            /\ expandedSections' = toggleSection(expandedSections, id)
            /\ UNCHANGED expanded
    /\ UNCHANGED <<page, refreshVars, healthVars, chatVars, viewerVars, openTabs, activeTab, results, loading, loadingSim, autoRefresh,
                   inflight, issued, newestOk, callHist>>

\* variant of the Compare Strategies button that is rendered whatever the slots hold
OpenComparisonAlways ==
    /\ SectionOpen("strategies")
    /\ LET t == openTab(openTabs, openTabs, "comparison") IN
         /\ openTabs' = t.tabs
         /\ activeTab' = t.active
    /\ UNCHANGED <<page, refreshVars, healthVars, chatVars, viewerVars, expanded, expandedSections, results, loading,
                   loadingSim, autoRefresh, inflight, issued, newestOk, callHist>>

\* the Compare Strategies button, rendered when both slots are set
OpenComparison ==
    /\ SectionOpen("strategies")
    /\ Truthy(results["classical"]) /\ Truthy(results["quantum"])
    /\ LET t == openTab(openTabs, openTabs, "comparison") IN
         /\ openTabs' = t.tabs
         /\ activeTab' = t.active
    /\ UNCHANGED <<page, refreshVars, healthVars, chatVars, viewerVars, expanded, expandedSections, results, loading,
                   loadingSim, autoRefresh, inflight, issued, newestOk, callHist>>

\* variant of the test of the Portfolio Galaxy button that always passes
HasAssetsAlways(sim) == TRUE

\* simData && simData.assets: only a simulation payload has assets
HasAssets(sim) == sim.tag = "data"

\* the Portfolio Galaxy button of index.tsx: openTab('galaxy') when a simulation
\* with assets is stored, otherwise an alert
OpenGalaxy ==
    /\ page = "index"
    /\ SectionOpen("visualizations")
    /\ IF HasAssets(results["sim"])
       THEN LET t == openTab(openTabs, openTabs, "galaxy") IN
              /\ openTabs' = t.tabs
              /\ activeTab' = t.active
       ELSE UNCHANGED <<openTabs, activeTab>>
    /\ UNCHANGED <<page, refreshVars, healthVars, chatVars, viewerVars, expanded, expandedSections, results, loading,
                   loadingSim, autoRefresh, inflight, issued, newestOk, callHist>>

----------------------------------------------------------------------------
(* The health indicator *)

\* the values of the status field of a response body ("undefined": no such field)
StatusFields == {"ok", "degraded", "undefined"}

\* how the GET /health can settle
HealthOutcomes == {"ok", "httpError", "reject"}

\* the text of the badge
HealthBadge == IF health = "ok" THEN "Connected" ELSE "Offline"

\* the mount effect (dependency list []): fetch(`${API}/health`)
HealthMount ==
    /\ healthFetch = "unsent"
    /\ healthFetch' = "pending"
    /\ UNCHANGED <<health, chatVars, viewerVars, page, refreshVars, openTabs, activeTab, expanded, expandedSections, results,
                   loading, loadingSim, autoRefresh, inflight, issued, newestOk, callHist>>

\* variant of the promise chain without its catch
HealthValueNoCatch(p, o, status) ==
    IF o = "ok" THEN status ELSE "checking..."

\* the value given to setHealth by the promise chain: index.tsx does not test
\* r.ok, dashboard.tsx and index_complex.tsx throw on a non-OK status
HealthValue(p, o, status) ==
    CASE o = "ok" -> status
      [] o = "httpError" -> IF p = "index" THEN status ELSE "error"
      [] OTHER -> "error"

\* the promise chain of the mount effect settles; status: the status field of the body
HealthSettle(o, status) ==
    /\ healthFetch = "pending"
    /\ healthFetch' = "done"
    /\ health' = HealthValue(page, o, status)
    /\ UNCHANGED <<chatVars, viewerVars, page, refreshVars, openTabs, activeTab, expanded, expandedSections, results,
                   loading, loadingSim, autoRefresh, inflight, issued, newestOk, callHist>>

----------------------------------------------------------------------------
(* The chat widget (FinanceBot) *)

\* what a handleSend reads: the input, isLoading and messages of the render that
\* created it
ChatClosure(inp, busy, msgs) == [input |-> inp, isLoading |-> busy, messages |-> msgs]

\* the POST /chat sent by getAIResponse
ChatRequest(n, userMessage, msgs) ==
    [id |-> n, message |-> userMessage, history |-> HistoryOf(msgs)]

\* handleSend goes past its first line
HandleSendAccepts(c) == Trim(c.input) # "" /\ ~c.isLoading

\* handleSend up to the await of the fetch, run with the closure c
HandleSend(c) ==
    IF HandleSendAccepts(c)
    THEN /\ chatPosts < MaxChatPosts
         /\ messages' = Append(messages, Message("user", Trim(c.input)))
         /\ input' = ""
         /\ isLoading' = TRUE
         /\ chatPosts' = chatPosts + 1
         /\ chatInflight' = chatInflight
                \cup {ChatRequest(chatPosts + 1, Trim(c.input), c.messages)}
    ELSE UNCHANGED <<messages, input, isLoading, chatPosts, chatInflight>>

\* the chat toggle button
ToggleChat ==
    /\ isOpen' = ~isOpen
    /\ UNCHANGED <<messages, input, isLoading, chatTimers, chatInflight, chatPosts,
                   pageVars, healthVars, viewerVars>>

\* onChange of the input field (disabled while isLoading)
TypeInput(v) ==
    /\ isOpen
    /\ ~isLoading
    /\ input' = v
    /\ UNCHANGED <<isOpen, messages, isLoading, chatTimers, chatInflight, chatPosts,
                   pageVars, healthVars, viewerVars>>

\* Enter in the input field, or the send button
PressSend ==
    /\ isOpen
    /\ ~isLoading
    /\ HandleSend(ChatClosure(input, isLoading, messages))
    /\ UNCHANGED <<isOpen, chatTimers, pageVars, healthVars, viewerVars>>

\* handleQuickQuestion: setInput(question); setTimeout(() => handleSend(), 100)
ClickQuick(q) ==
    /\ isOpen
    /\ Len(messages) <= 2
    /\ Len(chatTimers) < MaxChatTimers
    /\ input' = q
    /\ chatTimers' = Append(chatTimers, ChatClosure(input, isLoading, messages))
    /\ UNCHANGED <<isOpen, messages, isLoading, chatInflight, chatPosts,
                   pageVars, healthVars, viewerVars>>

\* the oldest timer fires: the handleSend of the render of the click runs
TimerFire ==
    /\ chatTimers # <<>>
    /\ chatTimers' = Tail(chatTimers)
    /\ HandleSend(Head(chatTimers))
    /\ UNCHANGED <<isOpen, pageVars, healthVars, viewerVars>>

\* the string returned by getAIResponse
ChatReply(r, o) ==
    CASE o = "ok" -> ReplyTexts[r.id]
      [] o = "error" -> "sorry-error"
      [] o = "empty" -> "no-response"
      [] OTHER -> "connection-error"

\* handleSend from its await to its finally block
ChatSettle(r, o) ==
    /\ r \in chatInflight
    /\ chatInflight' = chatInflight \ {r}
    /\ messages' = Append(messages, Message("assistant", ChatReply(r, o)))
    /\ isLoading' = FALSE
    /\ UNCHANGED <<isOpen, input, chatTimers, chatPosts, pageVars, healthVars, viewerVars>>

----------------------------------------------------------------------------
(* The 3D viewers PortfolioGalaxy and BlochViewer *)

\* the first line of the scene effect: it returns before initThree
EffectReturnsEarly(client, canv, inp) ==
    \/ ~client
    \/ ~canv
    \/ (viewer = "PortfolioGalaxy" /\ inp = 0)

\* the cleanup function of a run of the scene effect:
\* if (animationId) cancelAnimationFrame(animationId); if (renderer) renderer.dispose()
SceneCleanup(e) ==
    IF e.phase = "returned" THEN e
    ELSE [e EXCEPT !.cleaned = TRUE,
                   !.phase = IF e.phase = "animating" /\ e.animationId # 0 THEN "stopped" ELSE @]

\* the effect list after the cleanup of the latest run
CleanedUp ==
    IF effects = <<>> THEN effects
    ELSE [effects EXCEPT ![Len(effects)] = SceneCleanup(@)]

\* a run of the scene effect after a render with the given isClient, canvas and input:
\* the cleanup of the previous run, then the early return or initThree() up to its await
SceneEffect(client, canv, inp) ==
    Append(CleanedUp,
           EffectRun(IF EffectReturnsEarly(client, canv, inp) THEN "returned" ELSE "importing"))

\* the parent renders a viewer for the first time: isClient is false, the
\* placeholder is rendered instead of the canvas and the scene effect returns early
MountViewer(w, v) ==
    /\ viewer = ""
    /\ viewer' = w
    /\ viewerMounted' = TRUE
    /\ viewerInput' = v
    /\ effects' = <<EffectRun("returned")>>
    /\ UNCHANGED <<isClient, viewerError, canvas, pageVars, healthVars, chatVars>>

\* the mount effect: setIsClient(true); the canvas is rendered and the scene effect runs
SetIsClient ==
    /\ viewerMounted
    /\ ~isClient
    /\ Len(effects) < MaxEffects
    /\ isClient' = TRUE
    /\ canvas' = TRUE
    /\ effects' = SceneEffect(TRUE, TRUE, viewerInput)
    /\ UNCHANGED <<viewer, viewerMounted, viewerError, viewerInput, pageVars, healthVars, chatVars>>

\* the parent renders the viewer with another assets / qubits array (PortfolioGalaxy:
\* also with the same array, its onAssetClick prop being a new function each time)
ChangeInput(v) ==
    /\ viewerMounted
    /\ isClient
    /\ Len(effects) < MaxEffects
    /\ v # viewerInput \/ viewer = "PortfolioGalaxy"
    /\ viewerInput' = v
    /\ effects' = SceneEffect(isClient, canvas, v)
    /\ UNCHANGED <<viewer, viewerMounted, isClient, viewerError, canvas, pageVars, healthVars, chatVars>>

\* setError(message): the error view replaces the canvas; nothing on an unmounted viewer
SetError ==
    /\ viewerError' = IF viewerMounted THEN TRUE ELSE viewerError
    /\ canvas' = IF viewerMounted THEN FALSE ELSE canvas

\* the import of a run resolves: initThree from its await to animate(), or to its
\* catch when canvasRef.current is null
ImportResolves(i) ==
    /\ i \in DOMAIN effects
    /\ effects[i].phase = "importing"
    /\ IF canvas
       THEN /\ effects' = [effects EXCEPT ![i].phase = "animating", ![i].animationId = 1]
            /\ UNCHANGED <<viewerError, canvas>>
       ELSE /\ effects' = [effects EXCEPT ![i].phase = "failed"]
            /\ SetError
    /\ UNCHANGED <<viewer, viewerMounted, isClient, viewerInput, pageVars, healthVars, chatVars>>

\* the import of a run rejects or the set-up of the scene throws: catch, setError
ImportFails(i) ==
    /\ i \in DOMAIN effects
    /\ effects[i].phase = "importing"
    /\ effects' = [effects EXCEPT ![i].phase = "failed"]
    /\ SetError
    /\ UNCHANGED <<viewer, viewerMounted, isClient, viewerInput, pageVars, healthVars, chatVars>>

\* the requested frame of a run is drawn: animate() requests the next one
Frame(i) ==
    /\ i \in DOMAIN effects
    /\ effects[i].phase = "animating"
    /\ effects[i].animationId < MaxFrames
    /\ effects' = [effects EXCEPT ![i].animationId = @ + 1]
    /\ UNCHANGED <<viewer, viewerMounted, isClient, viewerError, canvas, viewerInput,
                   pageVars, healthVars, chatVars>>

\* the viewer is unmounted: the cleanup of the latest run; canvasRef.current is null
UnmountViewer ==
    /\ viewerMounted
    /\ viewerMounted' = FALSE
    /\ effects' = CleanedUp
    /\ canvas' = FALSE
    /\ UNCHANGED <<viewer, isClient, viewerError, viewerInput, pageVars, healthVars, chatVars>>

----------------------------------------------------------------------------
(* The analyses *)

TotalIssued ==
    issued["fft"] + issued["classical"] + issued["quantum"]
    + issued["stock"] + issued["quantumState"] + issued["sim"]

\* a request in flight: its kind, its number among the requests of the kind, and
\* the openTabs of the render whose handler sent it (read again by openTab after the await)
Request(k, g, closureTabs) == [kind |-> k, gen |-> g, closure |-> closureTabs]

\* setLoading(kind) / setLoadingSim(true)
SetLoading(k) ==
    IF k = "sim"
    THEN loadingSim' = TRUE /\ UNCHANGED loading
    ELSE loading' = k /\ UNCHANGED loadingSim

\* variant of the finally block that leaves the loading flags as they are
ClearLoadingNever(k) == UNCHANGED <<loading, loadingSim>>

\* the finally block: setLoading('') / setLoadingSim(false)
ClearLoading(k) ==
    IF k = "sim"
    THEN loadingSim' = FALSE /\ UNCHANGED loading
    ELSE loading' = "" /\ UNCHANGED loadingSim

\* the synchronous part of a run function: set the loading flag, send the request
Send(k, closureTabs, cap) ==
    /\ TotalIssued < cap
    /\ Cardinality(inflight) < MaxInFlight
    /\ issued' = [issued EXCEPT ![k] = @ + 1]
    /\ inflight' = inflight \cup {Request(k, issued[k] + 1, closureTabs)}
    /\ SetLoading(k)

\* the request leaves the network
Receive(r, o) ==
    /\ inflight' = inflight \ {r}
    /\ newestOk' = IF o = "ok" /\ r.gen > newestOk[r.kind]
                   THEN [newestOk EXCEPT ![r.kind] = r.gen]
                   ELSE newestOk

\* variant of the setters with one slot shared by all kinds
StoreResultShared(res, k, v) == [j \in DOMAIN res |-> v]

\* setFftStats / setClassical / setQuantum / setRfResult / setQuantumState / setSimData
StoreResult(res, k, v) == [res EXCEPT ![k] = v]

\* index.tsx: runFFT, runClassical, runQuantum, runStockAnalysis, loadQuantumState,
\* runSimulation up to their await
IndexRun(k, cap) ==
    /\ page = "index"
    /\ k \in KindsOf("index")
    /\ ControlEnabled(k)
    /\ Send(k, IF TabOf(k) # "" THEN openTabs ELSE <<>>, cap)
    /\ UNCHANGED <<page, refreshVars, healthVars, chatVars, viewerVars, openTabs, activeTab, expanded, expandedSections, autoRefresh, results,
                   newestOk, callHist>>

\* the id that setInterval returns: one that no timer in use has
FreshInterval(active) ==
    CHOOSE i \in 1..(Cardinality(active) + 1) :
        i \notin active /\ \A j \in 1..(i - 1) : j \in active

\* the cleanup of the auto-refresh effect: clearInterval(interval) when it is set
AutoRefreshCleanup == intervals \ {interval}

\* variant of the auto-refresh effect whose previous run is not cleaned up
AutoRefreshEffectNoCleanup(auto, sim) ==
    IF auto /\ Truthy(sim)
    THEN [intervals |-> intervals \cup {FreshInterval(intervals)},
          interval |-> FreshInterval(intervals)]
    ELSE [intervals |-> intervals, interval |-> 0]

\* a run of the auto-refresh effect for the rendered autoRefresh and simData:
\* the cleanup of the previous run, then setInterval when both are truthy
AutoRefreshEffect(auto, sim) ==
    IF auto /\ Truthy(sim)
    THEN [intervals |-> AutoRefreshCleanup \cup {FreshInterval(AutoRefreshCleanup)},
          interval |-> FreshInterval(AutoRefreshCleanup)]
    ELSE [intervals |-> AutoRefreshCleanup, interval |-> 0]

\* the effects of the render that follows a state change: the auto-refresh effect
\* runs when one of its dependencies autoRefresh and simData has changed
RunEffects ==
    IF autoRefresh' = autoRefresh /\ results'["sim"] = results["sim"]
    THEN UNCHANGED refreshVars
    ELSE LET e == AutoRefreshEffect(autoRefresh', results'["sim"]) IN
           /\ intervals' = e.intervals
           /\ interval' = e.interval

\* the Auto-refresh checkbox, rendered in the empty state when a simulation is stored
SetAutoRefresh ==
    /\ page = "index"
    /\ activeTab = ""
    /\ Truthy(results["sim"])
    /\ autoRefresh' = ~autoRefresh
    /\ UNCHANGED <<page, healthVars, chatVars, viewerVars, openTabs, activeTab, expanded, expandedSections, results,
                   loading, loadingSim, inflight, issued, newestOk, callHist>>
    /\ RunEffects

\* a tick of the interval of the auto-refresh effect: runSimulation(portfolioTickers)
AutoRefreshTick(cap) ==
    /\ intervals # {}
    /\ Send("sim", <<>>, cap)
    /\ UNCHANGED <<page, refreshVars, healthVars, chatVars, viewerVars, openTabs, activeTab, expanded, expandedSections, autoRefresh,
                   results, newestOk, callHist>>

\* variant without the early returns of runStockAnalysis and runSimulation
IndexStoresAlways(k, o) == o # "reject"

\* whether the continuation of a run function of index.tsx reaches its setter
IndexStores(k, o) ==
    CASE k = "stock" -> o = "ok"
      [] k = "sim" -> o \in {"ok", "httpError"}
      [] OTHER -> o # "reject"

\* variant of the continuation that drops a response older than the stored one
IndexResultGuarded(r, o, slot) ==
    IF IndexStores(r.kind, o) /\ r.gen >= slot.gen THEN Body(o, r.gen) ELSE slot

\* the slot of the kind after the continuation of a run function of index.tsx
IndexResult(r, o, slot) ==
    IF IndexStores(r.kind, o) THEN Body(o, r.gen) ELSE slot

\* variant of the continuation that sends the request again when the fetch rejects
IndexSettleRetries(r, o) ==
    /\ page = "index"
    /\ r \in inflight
    /\ IF o = "reject"
       THEN /\ issued' = [issued EXCEPT ![r.kind] = @ + 1]
            /\ inflight' = (inflight \ {r}) \cup {Request(r.kind, issued[r.kind] + 1, r.closure)}
            /\ UNCHANGED <<openTabs, activeTab, results, loading, loadingSim, newestOk>>
       ELSE /\ Receive(r, o)
            /\ results' = StoreResult(results, r.kind, IndexResult(r, o, results[r.kind]))
            /\ IF IndexStores(r.kind, o) /\ TabOf(r.kind) # ""
               THEN LET t == openTab(r.closure, openTabs, TabOf(r.kind)) IN
                      /\ openTabs' = t.tabs
                      /\ activeTab' = t.active
               ELSE UNCHANGED <<openTabs, activeTab>>
            /\ ClearLoading(r.kind)
            /\ UNCHANGED issued
    /\ UNCHANGED <<page, healthVars, chatVars, viewerVars, expanded, expandedSections, autoRefresh, callHist>>
    /\ RunEffects

\* index.tsx: a run function from its await to its finally block
IndexSettle(r, o) ==
    /\ page = "index"
    /\ r \in inflight
    /\ Receive(r, o)
    /\ results' = StoreResult(results, r.kind, IndexResult(r, o, results[r.kind]))
    /\ IF IndexStores(r.kind, o) /\ TabOf(r.kind) # ""
       THEN LET t == openTab(r.closure, openTabs, TabOf(r.kind)) IN
              /\ openTabs' = t.tabs
              /\ activeTab' = t.active
       ELSE UNCHANGED <<openTabs, activeTab>>
    /\ ClearLoading(r.kind)
    /\ UNCHANGED <<page, healthVars, chatVars, viewerVars, expanded, expandedSections, autoRefresh, issued, callHist>>
    /\ RunEffects

\* the page is unmounted: the cleanup of the auto-refresh effect runs
Unmount ==
    /\ page \in Pages
    /\ page' = "unmounted"
    /\ intervals' = AutoRefreshCleanup
    /\ interval' = 0
    /\ UNCHANGED <<healthVars, chatVars, viewerVars, openTabs, activeTab, expanded, expandedSections, results,
                   loading, loadingSim, autoRefresh, inflight, issued, newestOk, callHist>>

\* the continuation of a run function after the unmount: its setters change nothing
SettleUnmounted(r, o) ==
    /\ page = "unmounted"
    /\ r \in inflight
    /\ Receive(r, o)
    /\ UNCHANGED <<page, refreshVars, healthVars, chatVars, viewerVars, openTabs, activeTab, expanded,
                   expandedSections, results, loading, loadingSim, autoRefresh, issued, callHist>>

\* dashboard.tsx, index_complex.tsx: a sidebar button: runX(); openTab(tab, name)
DashRun(k, cap) ==
    /\ page = "dashboard"
    /\ k \in KindsOf("dashboard")
    /\ ControlEnabled(k)
    /\ Send(k, <<>>, cap)
    /\ LET t == openTab(openTabs, openTabs, TabOf(k)) IN
         /\ openTabs' = t.tabs
         /\ activeTab' = t.active
    /\ UNCHANGED <<page, refreshVars, healthVars, chatVars, viewerVars, expanded, expandedSections, autoRefresh, results, newestOk, callHist>>

\* the slot of the kind after the continuation of a run function of dashboard.tsx
DashResult(r, o, slot) ==
    CASE o = "ok" -> Payload(r.gen)
      [] o = "appError" -> ErrBody
      [] OTHER -> ErrMarker

\* dashboard.tsx, index_complex.tsx: a run function from its await to its finally block
DashSettle(r, o) ==
    /\ page = "dashboard"
    /\ r \in inflight
    /\ Receive(r, o)
    /\ results' = StoreResult(results, r.kind, DashResult(r, o, results[r.kind]))
    /\ ClearLoading(r.kind)
    /\ UNCHANGED <<page, refreshVars, healthVars, chatVars, viewerVars, openTabs, activeTab, expanded, expandedSections, autoRefresh, issued, callHist>>

----------------------------------------------------------------------------
(* The page: analyses and tabs, all sidebar sections expanded *)

\* a step of an analysis or of a sidebar button, at most cap requests sent in all
RequestStep(cap) ==
    \/ OpenComparison
    \/ OpenGalaxy
    \/ \E k \in AllKinds : IndexRun(k, cap)
    \/ \E r \in inflight, o \in Outcomes : IndexSettle(r, o)
    \/ SetAutoRefresh
    \/ AutoRefreshTick(cap)
    \/ \E k \in AllKinds : DashRun(k, cap)
    \/ \E r \in inflight, o \in Outcomes : DashSettle(r, o)

\* a step of the page that sends at most cap requests in all
PageStep(cap) ==
    \/ \E id \in Elems(AllTabs) : ClickTab(id)
    \/ \E id \in Elems(AllTabs) : CloseTab(id)
    \/ RequestStep(cap)

Next == PageStep(MaxRequests)

Spec == Init /\ [][Next]_vars

----------------------------------------------------------------------------
(* The analyses alone: no tab of the tab bar is clicked or closed *)

NextRequests == RequestStep(MaxRequests)

SpecRequests == Init /\ [][NextRequests]_vars

----------------------------------------------------------------------------
(* The analyses and the unmount of the page *)

NextRefresh ==
    \/ RequestStep(MaxRequests)
    \/ Unmount
    \/ \E r \in inflight, o \in Outcomes : SettleUnmounted(r, o)

SpecRefresh == Init /\ [][NextRefresh]_vars

----------------------------------------------------------------------------
(* The analyses when every request sent eventually settles, with whatever outcome *)

NextSettling == RequestStep(MaxSettlingRequests)

\* the continuation of some request in flight runs
SettleSome == \E r \in inflight, o \in Outcomes : IndexSettle(r, o) \/ DashSettle(r, o)

SpecSettling == Init /\ [][NextSettling]_vars /\ WF_vars(SettleSome)

----------------------------------------------------------------------------
(* The page for a few requests, all sidebar sections expanded *)

NextViews == PageStep(MaxSidebarRequests)

SpecViews == Init /\ [][NextViews]_vars

----------------------------------------------------------------------------
(* The page with its sidebar sections toggled, for a few requests *)

NextSidebar ==
    \/ \E id \in IndexSections : Toggle(id)
    \/ PageStep(MaxSidebarRequests)

SpecSidebar == Init /\ [][NextSidebar]_vars

----------------------------------------------------------------------------
(* Sequences of direct calls of openTab and closeTab, and tab clicks *)

TabIds == {AllTabs[i] : i \in 1..NumTabs}

\* the record of a direct call made in the current state
Called(op, id) ==
    [op |-> op, id |-> id, wasOpen |-> includes(openTabs, id), wasActive |-> activeTab = id]

CallOpenTab(id) ==
    /\ LET t == openTab(openTabs, openTabs, id) IN
         /\ openTabs' = t.tabs
         /\ activeTab' = t.active
    /\ recency' = Touch(recency, id)
    /\ lastCall' = Called("openTab", id)
    /\ UNCHANGED <<page, refreshVars, healthVars, chatVars, viewerVars, expanded, expandedSections, results, loading,
                   loadingSim, autoRefresh, inflight, issued, newestOk>>

CallCloseTab(id) ==
    /\ LET c == closeTabOf(page, openTabs, activeTab, id) IN
         /\ openTabs' = c.tabs
         /\ activeTab' = c.active
    /\ recency' = filterOut(recency, id)
    /\ lastCall' = Called("closeTab", id)
    /\ UNCHANGED <<page, refreshVars, healthVars, chatVars, viewerVars, expanded, expandedSections, results, loading,
                   loadingSim, autoRefresh, inflight, issued, newestOk>>

NextTabs ==
    \/ \E id \in TabIds : CallOpenTab(id)
    \/ \E id \in TabIds : CallCloseTab(id)
    \/ \E id \in TabIds : ClickTab(id)

SpecTabs == Init /\ [][NextTabs]_vars

----------------------------------------------------------------------------
(* The local operations: direct calls of openTab and closeTab, tab clicks and
   section headers, no request *)

NextLocal ==
    \/ NextTabs
    \/ \E id \in IndexSections : Toggle(id)

SpecLocal == Init /\ [][NextLocal]_vars

----------------------------------------------------------------------------
(* The health check of the mount effect while tabs are opened and closed *)

NextHealth ==
    \/ HealthMount
    \/ \E o \in HealthOutcomes, status \in StatusFields : HealthSettle(o, status)
    \/ NextTabs

SpecHealth == Init /\ [][NextHealth]_vars

----------------------------------------------------------------------------
(* The chat widget *)

NextChat ==
    \/ ToggleChat
    \/ \E v \in TypedInputs : TypeInput(v)
    \/ PressSend
    \/ \E q \in QuickQuestions : ClickQuick(q)
    \/ TimerFire
    \/ \E r \in chatInflight, o \in ChatOutcomes : ChatSettle(r, o)

SpecChat == Init /\ [][NextChat]_vars

----------------------------------------------------------------------------
(* A 3D viewer: its effects, the import of the 3D library and the frames *)

NextViewer ==
    \/ \E w \in Viewers, v \in 0..MaxInputs : MountViewer(w, v)
    \/ SetIsClient
    \/ \E v \in 0..MaxInputs : ChangeInput(v)
    \/ \E i \in 1..MaxEffects : ImportResolves(i)
    \/ \E i \in 1..MaxEffects : ImportFails(i)
    \/ \E i \in 1..MaxEffects : Frame(i)
    \/ UnmountViewer

SpecViewer == Init /\ [][NextViewer]_vars

----------------------------------------------------------------------------
(* Properties of the tab operations called directly *)

\* C1: after every sequence of openTab, closeTab and tab clicks from the initial
\* state the active tab is a tab of the open-tab list, or "" when the list is
\* empty, and it occurs once in the list, so that one tab at most is shown active.
ActiveTabIsOpenOrNone ==
    /\ IF openTabs = <<>> THEN activeTab = "" ELSE includes(openTabs, activeTab)
    /\ Cardinality({i \in 1..Len(openTabs) : openTabs[i] = activeTab}) <= 1

\* a closeTab has removed a tab and the active tab is not the last of the list
ActiveTabIsOpenOrNoneWitness ==
    /\ lastCall.op = "closeTab" /\ lastCall.wasOpen
    /\ Len(openTabs) >= 2
    /\ activeTab = openTabs[1]

\* new is old without id, the other tabs in the order they had
RemovedKeepingOrder(old, new, id) ==
    /\ Elems(new) = Elems(old) \ {id}
    /\ Len(new) = Cardinality(Elems(new))
    /\ \A i, j \in 1..Len(new) :
         i < j => \E a, b \in 1..Len(old) : a < b /\ old[a] = new[i] /\ old[b] = new[j]

\* C9: closeTab(id) of a tab that is not the active one leaves the active tab as
\* it is and removes id from the open-tab list, the other tabs keeping their
\* order; closeTab(id) of a tab that is not open changes neither the list nor the
\* active tab.
CloseNonActiveKeepsActive ==
    [][\A id \in TabIds :
         (CallCloseTab(id) /\ id # activeTab) =>
            /\ activeTab' = activeTab
            /\ RemovedKeepingOrder(openTabs, openTabs', id)
            /\ (~includes(openTabs, id) => openTabs' = openTabs)]_vars

\* a tab that was open and not active has been closed, two tabs or more remain
\* and the active one is not the last
CloseNonActiveKeepsActiveWitness ==
    /\ lastCall.op = "closeTab" /\ lastCall.wasOpen /\ ~lastCall.wasActive
    /\ Len(openTabs) >= 2
    /\ activeTab = openTabs[1]

\* a closeTab of a tab that was not open has been called while tabs were open
CloseNotOpenWitness ==
    /\ lastCall.op = "closeTab" /\ ~lastCall.wasOpen
    /\ Len(openTabs) >= 2

\* the tab of the list, other than id, that was appended last ("" when none)
LastRemaining(tabs, id) ==
    LET idx == {i \in 1..Len(tabs) : tabs[i] # id} IN
    IF idx = {} THEN "" ELSE tabs[CHOOSE i \in idx : \A j \in idx : j <= i]

\* C10 as stated: closing the active tab makes active the remaining tab whose
\* openTab call (first opening or re-opening) was the most recent, or no tab.
CloseActiveFallsBackToMostRecentlyOpened ==
    [][\A id \in TabIds :
         (CallCloseTab(id) /\ id = activeTab /\ includes(openTabs, id)) =>
            activeTab' = (IF recency' = <<>> THEN "" ELSE Last(recency'))]_vars

\* C10 amended: closing the active tab makes active the last tab of the remaining
\* open-tab list, which is the remaining tab that was appended to the list last
\* (openTab of a tab that is already open does not move it), or no tab when none
\* remains.
CloseActiveFallsBackToLastOfList ==
    [][\A id \in TabIds :
         (CallCloseTab(id) /\ id = activeTab /\ includes(openTabs, id)) =>
            /\ activeTab' = LastRemaining(openTabs, id)
            /\ openTabs' = filterOut(openTabs, id)]_vars

\* the active tab has been closed, two tabs remain, and the tab made active is not
\* the one whose openTab call was the most recent
CloseActiveFallsBackToLastOfListWitness ==
    /\ lastCall.op = "closeTab" /\ lastCall.wasOpen /\ lastCall.wasActive
    /\ Len(openTabs) >= 2
    /\ activeTab = Last(openTabs)
    /\ Last(recency) # activeTab

\* C11 as stated: closeTab(id) removes id from the open-tab list and, when id was
\* the active tab, makes active the tab before the last of the remaining tabs (the
\* only remaining tab when one remains), or no tab when none remains.
CloseActiveFallsBackToPreviousToLast ==
    [][\A id \in TabIds :
         CallCloseTab(id) =>
            /\ ~includes(openTabs', id)
            /\ (id = activeTab /\ includes(openTabs, id)) =>
                  activeTab' = closeTabFallsBackToPenultimate(openTabs, activeTab, id).active]_vars

\* C11 amended: closeTab(id) removes id from the open-tab list, and when id was the
\* active tab the last of the remaining tabs becomes active, whatever the position
\* of id in the list was, or no tab when the list becomes empty.
CloseRemovesAndFallsBackToLast ==
    [][\A id \in TabIds :
         CallCloseTab(id) =>
            /\ ~includes(openTabs', id)
            /\ Elems(openTabs') = Elems(openTabs) \ {id}
            /\ (id = activeTab /\ includes(openTabs, id)) =>
                  activeTab' = (IF openTabs' = <<>> THEN "" ELSE openTabs'[Len(openTabs')])]_vars

\* the active tab has been closed, two tabs or more remain, and the last of them
\* is active, not the one before it
CloseRemovesAndFallsBackToLastWitness ==
    /\ lastCall.op = "closeTab" /\ lastCall.wasOpen /\ lastCall.wasActive
    /\ ~includes(openTabs, lastCall.id)
    /\ Len(openTabs) >= 2
    /\ activeTab = openTabs[Len(openTabs)]
    /\ activeTab # openTabs[Len(openTabs) - 1]

\* C12: openTab(id) appends id to the open-tab list exactly when it is absent and
\* leaves the list as it is when it is present, makes id the active tab in both
\* cases, gives the same state when called a second time, and from the empty list
\* openTab("signals") gives the list <<"signals">> with "signals" active.
OpenTabAppendsOnceAndActivates ==
    [][\A id \in TabIds :
         CallOpenTab(id) =>
            /\ openTabs' = (IF includes(openTabs, id) THEN openTabs ELSE Append(openTabs, id))
            /\ activeTab' = id
            /\ openTab(openTabs', openTabs', id) = [tabs |-> openTabs', active |-> activeTab']
            /\ (openTabs = <<>> /\ id = "signals") =>
                  (openTabs' = <<"signals">> /\ activeTab' = "signals")]_vars

\* openTab has been called on a tab that was open and not active, and that is not
\* the last of the list: it is active and still at its place
OpenTabAppendsOnceAndActivatesWitness ==
    /\ lastCall.op = "openTab" /\ lastCall.wasOpen /\ ~lastCall.wasActive
    /\ Len(openTabs) >= 2
    /\ activeTab = lastCall.id
    /\ openTabs[1] = lastCall.id

----------------------------------------------------------------------------
(* Properties of the sidebar sections *)

\* C13: a second toggle of the section that has just been toggled gives back to
\* every section the expanded or collapsed state it had before the first one, in
\* the record of index.tsx and in the list of dashboard.tsx / index_complex.tsx.
ToggleTwiceRestores ==
    [][\A id \in IndexSections :
         Toggle(id) =>
            IF page = "index"
            THEN /\ expanded'[id] # expanded[id]
                 /\ toggle(expanded', id) = expanded
            ELSE /\ includes(expandedSections', id) # includes(expandedSections, id)
                 /\ \A s \in DashSections :
                      includes(toggleSection(expandedSections', id), s)
                         <=> includes(expandedSections, s)]_vars

\* dashboard.tsx: the first section has been collapsed and expanded again, both
\* sections are expanded as they were at the start
ToggleTwiceRestoresWitness ==
    /\ page = "dashboard"
    /\ expandedSections = <<"strategies", "signals">>

\* the step changes the expanded state of the sidebar
SectionsChange == expanded' # expanded \/ expandedSections' # expandedSections

\* C16: a toggle of a section sends no request and leaves the open-tab list, the
\* active tab, the loading flags, the result slots, the requests in flight and
\* the expanded state of every other section as they are.
ToggleIsLocal ==
    [][\A id \in IndexSections :
         (SectionsChange /\ Toggle(id)) =>
            /\ UNCHANGED <<openTabs, activeTab, loading, loadingSim, results, inflight, issued>>
            /\ SectionOpen(id)' # SectionOpen(id)
            /\ \A s \in IndexSections \ {id} : SectionOpen(s)' = SectionOpen(s)]_vars

\* the section of an analysis has been collapsed while its request is in flight:
\* the request is still in flight, its loading flag is set, and the tab and the
\* slot of an earlier analysis are as they were
ToggleIsLocalWitness ==
    /\ \E r \in inflight :
         /\ r.kind # "sim"
         /\ ~SectionOpen(SectionOf(r.kind))
         /\ LoadingShown(r.kind)
    /\ openTabs # <<>>
    /\ \E j \in AllKinds : results[j].tag = "data"

----------------------------------------------------------------------------
(* Properties of the page *)

\* the step is the continuation of request r settling with outcome o
Settles(r, o) == IndexSettle(r, o) \/ DashSettle(r, o)

\* the step sends a request of kind k
Starts(k) == issued'[k] # issued[k]

\* the step is the continuation of a request of kind k
Completes(k) == \E r \in inflight : r.kind = k /\ r \notin inflight'

\* C2: in every reachable state of the page, also after a request has settled
\* while tabs were opened or closed during its flight, the active tab is a tab of
\* the open-tab list.
ActiveOnlyIfOpen == activeTab # "" => includes(openTabs, activeTab)

\* C3: when a request of runClassical settles successfully, the classical slot
\* holds the payload of that response, "classical" is in the open-tab list and it
\* is the active tab.
ClassicalResolvedIsStoredAndOpen ==
    [][\A r \in inflight :
         (r.kind = "classical" /\ Settles(r, "ok")) =>
            /\ results'["classical"] = Payload(r.gen)
            /\ includes(openTabs', "classical")
            /\ activeTab' = "classical"]_vars

\* C4: a response that settles successfully is stored in the slot of its kind
\* whatever has been stored before, also when a request of the kind sent later has
\* already settled: the response that settles last wins, none is discarded.
LastWriteWins ==
    [][\A r \in inflight : Settles(r, "ok") => results'[r.kind] = Payload(r.gen)]_vars

\* a slot holds the payload of a request sent before another request of the kind
\* whose response has been stored first
LastWriteWinsWitness ==
    \E k \in AllKinds : results[k].tag = "data" /\ results[k].gen < newestOk[k]

\* C5: when a request fails (the fetch rejects or the status is not OK), the
\* continuation leaves an error marker in the slot of the kind and clears the
\* loading flag.
FailureLeavesErrorMarker ==
    [][\A r \in inflight : \A o \in {"httpError", "reject"} :
         Settles(r, o) =>
            /\ results'[r.kind].tag \in {"errMarker", "errBody"}
            /\ ~LoadingShown(r.kind)']_vars

\* C6: while a request of a kind is in flight the loading flag of the kind is
\* set: its control is disabled and shows the busy indicator.
LoadingShownWhileInFlight == \A r \in inflight : LoadingShown(r.kind)

\* C7: whether a kind is shown as loading changes only in a step that starts or
\* completes an analysis of that kind.
LoadingWrittenOnlyByOwner ==
    [][\A a \in AllKinds :
         (LoadingShown(a)' # LoadingShown(a)) => (Starts(a) \/ Completes(a))]_vars

\* C8: the result slot of a kind changes only in the continuation of a request
\* of that kind: no start or completion of another kind, no openTab, closeTab or
\* toggle writes it, and it keeps its value until then.
SlotWrittenOnlyByOwner ==
    [][\A k \in AllKinds : results'[k] # results[k] => Completes(k)]_vars

\* a slot holds a payload after its tab has been closed, a section has been
\* collapsed and an analysis of another kind has been started
SlotWrittenOnlyByOwnerWitness ==
    \E k \in AllKinds \ {"sim"} :
        /\ results[k].tag = "data"
        /\ ~includes(openTabs, TabOf(k))
        /\ \E j \in AllKinds \ {k} : issued[j] > 0
        /\ \E s \in DashSections : ~SectionOpen(s)

\* C14: the tab of a kind is opened when its request has completed successfully:
\* the step that sends a request, and the continuation of a request that failed
\* (rejected fetch or non-OK status), change neither the open-tab list nor the
\* active tab.
TabOpenedOnlyOnSuccess ==
    [][/\ \A k \in AllKinds : Starts(k) => UNCHANGED <<openTabs, activeTab>>
       /\ \A r \in inflight : \A o \in {"httpError", "reject"} :
             Settles(r, o) => UNCHANGED <<openTabs, activeTab>>]_vars

\* C15: closing a tab leaves every result slot as it is, and so does opening a
\* tab again with a control that sends no request: the slot holds the payload it
\* held before the close.  Stated from the side of the slots: a step that changes
\* a slot is neither a closeTab nor the opening of a tab without a request.
CloseTabKeepsSlots ==
    [][results' # results =>
         /\ \A id \in Elems(AllTabs) : ~CloseTab(id)
         /\ ~OpenComparison
         /\ ~OpenGalaxy]_vars

\* the tabs of two analyses have been closed, their slots still hold the payloads,
\* which the comparison tab, opened without a request, displays
CloseTabKeepsSlotsWitness ==
    /\ results["classical"].tag = "data" /\ results["quantum"].tag = "data"
    /\ ~includes(openTabs, "classical") /\ ~includes(openTabs, "quantum")
    /\ activeTab = "comparison"
    /\ inflight = {}

\* the step is the synchronous part of an analysis of kind k that has been triggered
Triggers(k) ==
    \/ IndexRun(k, MaxRequests)
    \/ DashRun(k, MaxRequests)
    \/ (k = "sim" /\ AutoRefreshTick(MaxRequests))

\* C17: a request is sent only by a step that triggers an analysis, which sends
\* exactly one request, of its kind; the continuation of a request, failed or
\* not, sends none: it only takes its own request out of flight.  The requests
\* sent for a kind are as many as the times its analysis was triggered.
OneRequestPerTrigger ==
    [][/\ issued' # issued =>
            \E k \in AllKinds :
               /\ Triggers(k)
               /\ issued' = [issued EXCEPT ![k] = @ + 1]
               /\ \E r \in inflight' :
                    /\ r.kind = k /\ r.gen = issued'[k]
                    /\ r \notin inflight
                    /\ inflight' = inflight \cup {r}
       /\ \A r \in inflight \ inflight' : \A o \in Outcomes :
             Settles(r, o) => (issued' = issued /\ inflight' = inflight \ {r})]_vars

\* an analysis has been triggered twice, its last request has failed, and no
\* request is in flight: two requests have been sent for it, not more
OneRequestPerTriggerWitness ==
    /\ inflight = {}
    /\ \E k \in AllKinds :
         /\ issued[k] = 2
         /\ results[k].tag \in {"null", "errMarker"}
         /\ \A j \in AllKinds \ {k} : issued[j] = 0

\* no request is in flight and no loading flag is set
Idle == inflight = {} /\ loading = "" /\ ~loadingSim

ErrorResponseKeepsSlot ==
    [][\A r \in inflight \ inflight' :
         (\/ (r.kind = "stock" /\ (Settles(r, "appError") \/ Settles(r, "httpError")))
          \/ (r.kind = "sim" /\ Settles(r, "appError"))) =>
            /\ results'[r.kind] = results[r.kind]
            /\ UNCHANGED <<openTabs, activeTab>>
            /\ ~LoadingShown(r.kind)']_vars

\* a second stock analysis has ended without a stored response: the slot holds
\* the payload of the first one and no flag is set
ErrorResponseKeepsSlotWitness ==
    /\ results["stock"] = Payload(1)
    /\ issued["stock"] = 2
    /\ inflight = {}
    /\ loading = ""
    /\ activeTab = "stock"

\* C22: no tab is lost by overlapping analyses of index.tsx: when an analysis
\* completes successfully while the tab of another kind, whose only request
\* succeeded during the flight of this one, is open, and no tab that was open at
\* the start of this analysis is missing, then after the completion the open-tab
\* list holds the tabs of both kinds.
NoTabLostByOverlap ==
    [][\A r \in inflight \ inflight' :
         (/\ page = "index"
          /\ Settles(r, "ok")
          /\ TabOf(r.kind) # ""
          /\ \A x \in Elems(r.closure) : includes(openTabs, x)) =>
            \A k2 \in AllKinds \ {r.kind} :
               (/\ TabOf(k2) # ""
                /\ issued[k2] = 1
                /\ newestOk[k2] = 1
                /\ includes(openTabs, TabOf(k2))
                /\ ~includes(r.closure, TabOf(k2))) =>
                  /\ includes(openTabs', TabOf(k2))
                  /\ includes(openTabs', TabOf(r.kind))]_vars

\* C23: at any time at most one interval timer of the auto-refresh effect is
\* set, and one is set only while the page is mounted, autoRefresh is on and a
\* simulation result is stored; with autoRefresh off or the page unmounted, no
\* tick of the timer can send a simulation request.
AtMostOneTimerWhileOn ==
    /\ Cardinality(intervals) <= 1
    /\ intervals # {} => (page = "index" /\ autoRefresh /\ Truthy(results["sim"]))
    /\ (~autoRefresh \/ page = "unmounted") => ~ENABLED AutoRefreshTick(MaxRequests + 1)

\* the page was unmounted while auto-refresh was on after a tick had sent a
\* request: the timer has been cleared
AtMostOneTimerWhileOnWitness ==
    /\ page = "unmounted"
    /\ autoRefresh
    /\ issued["sim"] >= 2
    /\ Truthy(results["sim"])
    /\ intervals = {}

----------------------------------------------------------------------------
(* Properties of the health indicator *)

----------------------------------------------------------------------------
(* Properties of the chat widget *)

\* C20: a step that sends a POST /chat sends exactly one, appends the user
\* message, and the body carries the content of that message and, as
\* conversation_history, the role and content of every message displayed before
\* it, in order; the response field of a reply is the content of the assistant
\* message appended by its continuation.
ChatBodyCarriesDisplayedHistory ==
    [][/\ (chatPosts' # chatPosts) =>
            \E r \in chatInflight' \ chatInflight :
               /\ chatPosts' = chatPosts + 1
               /\ chatInflight' = chatInflight \cup {r}
               /\ messages' = Append(messages, Message("user", r.message))
               /\ r.history = HistoryOf(messages)
       /\ \A r \in chatInflight \ chatInflight' :
             ChatSettle(r, "ok") =>
                messages' = Append(messages, Message("assistant", ReplyTexts[r.id]))]_vars

\* the step runs handleSend: called by Enter or the send button, or by a timer
RunsHandleSend == PressSend \/ (chatTimers' # chatTimers /\ TimerFire)

\* C24: when handleSend runs while the input is blank after trimming or a reply
\* is pending it changes nothing; otherwise it appends the user message with the
\* trimmed input, clears the input, sets isLoading and sends one request; and
\* when a request settles, with whatever outcome, one assistant message is
\* appended and isLoading is false.
HandleSendContract ==
    [][/\ RunsHandleSend =>
            IF Trim(input) = "" \/ isLoading
            THEN UNCHANGED <<messages, input, isLoading, chatInflight, chatPosts>>
            ELSE /\ messages' = Append(messages, Message("user", Trim(input)))
                 /\ input' = ""
                 /\ isLoading'
                 /\ Cardinality(chatInflight') = Cardinality(chatInflight) + 1
       /\ \A r \in chatInflight \ chatInflight' :
             /\ Len(messages') = Len(messages) + 1
             /\ Last(messages').role = "assistant"
             /\ ~isLoading']_vars

\* C25: at most one chat request is in flight, and after the greeting the
\* messages alternate: user message, assistant message, user message, ...
OneChatRequestAndAlternation ==
    /\ Cardinality(chatInflight) <= 1
    /\ \A i \in 2..Len(messages) :
          messages[i].role = IF i % 2 = 0 THEN "user" ELSE "assistant"

\* C26: a quick question q clicked while no reply was pending is sent: when the
\* timer of the click fires, the input field still holding q and no reply
\* pending, a user message with content q is appended and a request with
\* message q is sent, whatever the input field held before the click.
QuickQuestionIsSent ==
    [][(/\ chatTimers' # chatTimers
        /\ TimerFire
        /\ Len(chatTimers) = 1
        /\ ~Head(chatTimers).isLoading
        /\ ~isLoading
        /\ input \in QuickQuestions) =>
           /\ messages' = Append(messages, Message("user", input))
           /\ \E r \in chatInflight' \ chatInflight : r.message = input]_vars

----------------------------------------------------------------------------
(* Properties of the views that need a stored result *)

\* C27: the Portfolio Galaxy button opens its tab only when a simulation result
\* with assets is stored: pressed without one, it leaves the open-tab list and
\* the active tab as they are; and in every reachable state in which "galaxy"
\* is in the open-tab list the simulation slot is not null.
GalaxyOnlyWithSimulation ==
    /\ [](includes(openTabs, "galaxy") => Truthy(results["sim"]))
    /\ [][(~HasAssets(results["sim"]) /\ OpenGalaxy) =>
             UNCHANGED <<openTabs, activeTab>>]_vars

\* the button has opened the galaxy tab next to the tab of an analysis, a
\* simulation payload being stored
GalaxyOnlyWithSimulationWitness ==
    /\ includes(openTabs, "galaxy")
    /\ activeTab = "galaxy"
    /\ Len(openTabs) = 2
    /\ results["sim"] = Payload(1)

\* C28: in every reachable state in which "comparison" is in the open-tab list
\* the classical and the quantum slot are both not null: the Compare Strategies
\* button opens the tab only when both slots are set, and no step sets a slot
\* that is set back to null.
ComparisonOnlyWithBothResults ==
    /\ [](includes(openTabs, "comparison") =>
            (Truthy(results["classical"]) /\ Truthy(results["quantum"])))
    /\ [][/\ (openTabs' # openTabs /\ OpenComparison) =>
                (Truthy(results["classical"]) /\ Truthy(results["quantum"]))
          /\ (results' # results) =>
                (\A k \in AllKinds : Truthy(results[k]) => Truthy(results'[k]))]_vars

\* the comparison tab has been opened on the dashboard after both strategies
\* were run and their tabs opened
ComparisonOnlyWithBothResultsWitness ==
    /\ page = "dashboard"
    /\ activeTab = "comparison"
    /\ Len(openTabs) = 3
    /\ Truthy(results["classical"])
    /\ Truthy(results["quantum"])
    /\ inflight = {}

----------------------------------------------------------------------------
(* Properties of the 3D viewers *)

\* C29: once the cleanup of a run of the scene effect has run, because of the
\* unmount or of a change of the assets / qubits, the animation loop of that run
\* is not running, in this state and in every later one, also when the cleanup
\* ran while the import of the 3D library was pending.
NoAnimationAfterCleanup ==
    \A i \in DOMAIN effects : effects[i].cleaned => effects[i].phase # "animating"

====
